---- MODULE Spec2Model ----
(***************************************************************************)
(* payment-bot (src/main.py): the order store, the NOWPayments IPN webhook *)
(* handler running in the uvicorn listener thread, and make_payment_link   *)
(* running in the Telegram command-loop thread.  The two threads share the *)
(* SQLite store and the module-global tg_app; every store operation is its *)
(* own transaction, so the threads interleave between store operations.    *)
(* Timestamps (created_at, updated_at) are not modelled.                   *)
(***************************************************************************)
EXTENDS Integers, Sequences, FiniteSets, TLC

\* ------------------------------------------------------------------ bounds
MaxLinks == 1
MaxRequests == 2

\* --------------------------------------------------------------- constants
NULL == "NULL"                  \* SQL NULL / Python None / absent JSON key
ADMIN_ID == "admin"
NOWPAYMENTS_IPN_SECRET == "ipn_secret"
AttackerKey == "attacker_key"

\* amounts an operator may enter for a new order
Amounts == {5}
PaidStatuses == {"confirmed", "finished"}

InvoiceUrl == "https://pay/inv"
ChatId == "chat"

\* ------------------------------------------------------------- JSON bodies
\* A JSON object in text order is a sequence of members: <<key, value>> for
\* a string value, <<key, members, "object">> for a nested object.
\* All keys of the bodies modelled, in the order sorted() gives them.
SortedKeys == <<"currency", "depositFee", "fee", "id", "invoice", "invoice_id",
                "payment_id", "payment_status", "status">>

Has(data, k) == \E i \in 1..Len(data) : data[i][1] = k

\* the member a dict keeps for key k: the last one in text order
Member(data, k) ==
  data[CHOOSE i \in 1..Len(data) : data[i][1] = k /\ \A j \in (i+1)..Len(data) : data[j][1] # k]

IsObject(member) == Len(member) = 3

\* dict.get(k): the value of key k, None when the key is absent
Get(data, k) == IF Has(data, k) THEN Member(data, k)[2] ELSE NULL

\* Python truthiness of a value read from the body
Falsy(v) == v = NULL \/ v = ""

\* a or b or ""
OrElse(a, b) == IF ~Falsy(a) THEN a ELSE IF ~Falsy(b) THEN b ELSE ""

\* str.lower() on the strings the model uses
Lower(s) ==
  CASE s = "Finished" -> "finished"
    [] s = "CONFIRMED" -> "confirmed"
    [] s = "STOP" -> "stop"
    [] OTHER -> s

\* JSON text: the pairs in text order, written with separators "," ":"
\* (compact) or ", " ": " (spaced)
JsonText(pairs, spaced) == [json |-> TRUE, pairs |-> pairs, spaced |-> spaced]

\* a request body: bytes that parse as a JSON object (the gateway posts
\* compact text), or bytes that do not
JsonBody(pairs) == JsonText(pairs, FALSE)
BadBody == [json |-> FALSE, pairs |-> <<>>, spaced |-> FALSE]

\* json.loads(raw.decode("utf-8")): the dict, keys in text order
json_loads(raw_body) == raw_body.pairs

\* json.dumps(raw, ensure_ascii=False): the text, keys in dict order, default
\* separators
json_dumps(data) == JsonText(data, TRUE)

\* sort_keys applied to the outermost object only
RECURSIVE SortPairs_top_level(_, _)
SortPairs_top_level(data, ks) ==
  IF ks = <<>> THEN <<>>
  ELSE (IF Has(data, Head(ks)) THEN << Member(data, Head(ks)) >> ELSE <<>>)
       \o SortPairs_top_level(data, Tail(ks))

\* the members of data in the order of ks, nested objects sorted likewise
RECURSIVE SortPairs(_, _)
SortPairs(data, ks) ==
  IF ks = <<>> THEN <<>>
  ELSE (IF Has(data, Head(ks))
        THEN IF IsObject(Member(data, Head(ks)))
             THEN << <<Head(ks), SortPairs(Get(data, Head(ks)), SortedKeys), "object">> >>
             ELSE << <<Head(ks), Get(data, Head(ks))>> >>
        ELSE <<>>)
       \o SortPairs(data, Tail(ks))

\* json.dumps(body_obj, sort_keys=True, separators=(",", ":"))
sorted_str(data) == SortPairs(data, SortedKeys)

\* hmac.new(key, msg, sha512).hexdigest(): an abstract collision-free digest
hexdigest(key, msg) == <<key, msg>>

\* the X-Nowpayments-Sig header as the handler receives it
NoHeader == [present |-> FALSE, ascii |-> TRUE, text |-> <<>>]
EmptySig == [present |-> TRUE, ascii |-> TRUE, text |-> <<>>]
NonAsciiSig == [present |-> TRUE, ascii |-> FALSE, text |-> <<"\\xe9">>]
HexSig(key, msg) == [present |-> TRUE, ascii |-> TRUE, text |-> hexdigest(key, msg)]

\* hmac.compare_digest(digest, signature) on two str: TypeError unless both
\* are ASCII, otherwise equality
compare_digest(digest, signature) ==
  IF ~signature.ascii THEN "TypeError"
  ELSE IF digest = signature.text THEN "True" ELSE "False"

verify_nowpayments_signature(raw_body, signature) ==
  IF ~signature.present \/ signature.text = <<>> THEN "False"
  ELSE IF ~raw_body.json THEN "False"
  ELSE compare_digest(hexdigest(NOWPAYMENTS_IPN_SECRET, sorted_str(json_loads(raw_body))),
                      signature)

\* ------------------------------------------------------------- order store
\* orders: the rows of table orders, row i has id i (AUTOINCREMENT, no delete)
\* payments: the rows of table payments
create_order(os, chat_id, amount_usd) ==
  Append(os, [id |-> Len(os) + 1, chat_id |-> chat_id, amount_usd |-> amount_usd,
              invoice_id |-> NULL, invoice_url |-> NULL, status |-> "created"])

\* an attach_invoice that writes the identifier but not the URL
attach_invoice_id_only(os, order_id, invoice_id, invoice_url) ==
  [i \in 1..Len(os) |->
     IF os[i].id = order_id
     THEN [os[i] EXCEPT !.invoice_id = invoice_id, !.status = "invoice_created"]
     ELSE os[i]]

attach_invoice(os, order_id, invoice_id, invoice_url) ==
  [i \in 1..Len(os) |->
     IF os[i].id = order_id
     THEN [os[i] EXCEPT !.invoice_id = invoice_id, !.invoice_url = invoice_url,
                        !.status = "invoice_created"]
     ELSE os[i]]

\* set_order_status with an ordering check: a paid status is never overwritten
set_order_status_keep_paid(os, order_id, status) ==
  [i \in 1..Len(os) |->
     IF os[i].id = order_id /\ os[i].status \notin PaidStatuses
     THEN [os[i] EXCEPT !.status = status] ELSE os[i]]

set_order_status(os, order_id, status) ==
  [i \in 1..Len(os) |->
     IF os[i].id = order_id THEN [os[i] EXCEPT !.status = status] ELSE os[i]]

\* fetchone() returning None: a row no table holds (ids start at 1)
NoOrder == [id |-> 0, chat_id |-> NULL, amount_usd |-> 0,
            invoice_id |-> NULL, invoice_url |-> NULL, status |-> NULL]

\* a lookup that falls back to the oldest order when no invoice matches
get_order_by_invoice_fallback(os, invoice_id) ==
  IF \E i \in 1..Len(os) : os[i].invoice_id = invoice_id
  THEN os[CHOOSE i \in 1..Len(os) :
            /\ os[i].invoice_id = invoice_id
            /\ \A j \in 1..(i-1) : os[j].invoice_id # invoice_id]
  ELSE IF Len(os) > 0 THEN os[1] ELSE NoOrder

\* fetchone() of SELECT * FROM orders WHERE invoice_id=?: the first matching
\* row in rowid order, None when there is none
get_order_by_invoice(os, invoice_id) ==
  IF \E i \in 1..Len(os) : os[i].invoice_id = invoice_id
  THEN os[CHOOSE i \in 1..Len(os) :
            /\ os[i].invoice_id = invoice_id
            /\ \A j \in 1..(i-1) : os[j].invoice_id # invoice_id]
  ELSE NoOrder

\* a plain INSERT without the ON CONFLICT clause and without the primary key
upsert_payment_insert(ps, payment_id, order_id, status, raw) ==
  ps \cup {[payment_id |-> payment_id, order_id |-> order_id,
            status |-> status, raw_json |-> json_dumps(raw)]}

upsert_payment(ps, payment_id, order_id, status, raw) ==
  IF \E r \in ps : r.payment_id = payment_id
  THEN { IF r.payment_id = payment_id
         THEN [r EXCEPT !.status = status, !.raw_json = json_dumps(raw)]
         ELSE r : r \in ps }
  ELSE ps \cup {[payment_id |-> payment_id, order_id |-> order_id,
                 status |-> status, raw_json |-> json_dumps(raw)]}


\* SQL: lower(status) IN ('confirmed','finished'); NULL when status is NULL
sql_status_is_paid(status) ==
  IF status = NULL THEN NULL
  ELSE IF Lower(status) \in PaidStatuses THEN "true" ELSE "false"

\* SQL NOT over three-valued logic
sql_not(b) == CASE b = "true" -> "false" [] b = "false" -> "true" [] OTHER -> NULL

\* COALESCE(SUM(amount_usd), 0) over the rows with the ids in rows
RECURSIVE sum_amount_usd(_, _)
sum_amount_usd(os, rows) ==
  IF rows = {} THEN 0
  ELSE LET i == CHOOSE i \in rows : TRUE
       IN os[i].amount_usd + sum_amount_usd(os, rows \ {i})

\* a summary whose paid filter knows only 'confirmed'
stats_summary_confirmed_only(os) ==
  LET paid_rows == {i \in 1..Len(os) : os[i].status # NULL /\ Lower(os[i].status) = "confirmed"}
      pending_rows == {i \in 1..Len(os) : sql_not(sql_status_is_paid(os[i].status)) = "true"}
  IN [total |-> Len(os), paid |-> Cardinality(paid_rows), pending |-> Cardinality(pending_rows),
      sum_all |-> sum_amount_usd(os, 1..Len(os)), sum_paid |-> sum_amount_usd(os, paid_rows)]

stats_summary(os) ==
  LET paid_rows == {i \in 1..Len(os) : sql_status_is_paid(os[i].status) = "true"}
      pending_rows == {i \in 1..Len(os) : sql_not(sql_status_is_paid(os[i].status)) = "true"}
  IN [total |-> Len(os), paid |-> Cardinality(paid_rows), pending |-> Cardinality(pending_rows),
      sum_all |-> sum_amount_usd(os, 1..Len(os)), sum_paid |-> sum_amount_usd(os, paid_rows)]

\* ------------------------------------------------------------------- state
VARIABLES
  orders,      \* table orders: sequence of rows, row i has id i
  payments,    \* table payments: set of rows
  tg_app,      \* module global tg_app: NULL until main() builds the Application
  notified,    \* messages the Notifier delivered to ADMIN_ID for the request
               \* being handled
  w_pc,        \* listener thread: position inside nowpayments_ipn
  w_req,       \* the request being handled (or the last one handled)
  w_loc,       \* locals of nowpayments_ipn: status, payment_id, invoice_id, order;
               \* old: the payments row upsert_payment found under payment_id;
               \* send: what became of the send_message call (none, ok, raised)
  w_resp,      \* HTTP status of the response to w_req, 0 while none was sent
  nreq,        \* number of requests received so far
  m_pc,        \* command-loop thread: position inside make_payment_link
  m_loc,       \* locals of make_payment_link: order_id, amount, invoice_id, invoice_url
  nlinks,      \* number of payment links requested so far
  v_in,        \* verify_nowpayments_signature called on its own: the arguments
               \* (body, sig) and a second body presented under the same sig
  v_out,       \* what the two calls returned, "none" before the call
  user_data,   \* context.user_data of the operator: await_amount and
               \* await_order_id, NULL while the key is absent
  update       \* the Telegram update the command loop is handling

vars == <<orders, payments, tg_app, notified, w_pc, w_req, w_loc, w_resp, nreq, m_pc, m_loc, nlinks,
          v_in, v_out, user_data, update>>
store == <<orders, payments>>
w_vars == <<w_pc, w_req, w_loc, w_resp, nreq>>
m_vars == <<m_pc, m_loc, nlinks>>
v_vars == <<v_in, v_out>>
u_vars == <<user_data, update>>

\* ---------------------------------------------------------------- requests
Field(k, v) == << <<k, v>> >>

\* notifications carrying both identifiers, under either field-name alias
Notification(p, i, s) == JsonBody(p \o i \o s)

CompleteBodies ==
  { Notification(Field("payment_id", "p1"), Field("invoice_id", "inv_a"), Field("payment_status", "confirmed")),
    Notification(Field("payment_id", "p1"), Field("invoice_id", "inv_a"), Field("payment_status", "waiting")),
    Notification(Field("id", "p2"), Field("invoice_id", "inv_a"), Field("status", "Finished")),
    Notification(Field("payment_id", "p1"), Field("invoice", "inv_b"), Field("payment_status", "waiting")),
    Notification(Field("id", "p2"), Field("invoice", "inv_b"), Field("payment_status", "confirmed")) }

\* notifications in which an identifier is missing or empty
IncompleteBodies ==
  { JsonBody(Field("invoice_id", "inv_a") \o Field("payment_status", "confirmed")),
    JsonBody(Field("payment_id", "") \o Field("invoice_id", "inv_a") \o Field("status", "Finished")),
    JsonBody(Field("payment_id", "p1") \o Field("payment_status", "confirmed")),
    JsonBody(Field("id", "p2") \o Field("invoice", "") \o Field("payment_status", "confirmed")),
    JsonBody(<<>>) }

Bodies == CompleteBodies \cup IncompleteBodies

OtherBody == JsonBody(Field("payment_id", "p9"))

\* the signature the gateway computes for body b
GatewaySig(b) == HexSig(NOWPAYMENTS_IPN_SECRET, sorted_str(b.pairs))

\* signature headers that are not the gateway's signature of b
BadSigs(b) ==
  { NoHeader, EmptySig, NonAsciiSig,
    HexSig(AttackerKey, sorted_str(b.pairs)),
    GatewaySig(OtherBody) }

\* bodies of the forged requests
ForgedBodies ==
  { BadBody,
    JsonBody(Field("payment_id", "p1") \o Field("invoice_id", "inv_a")
             \o Field("payment_status", "confirmed")) }

\* the POST /ipn requests a sender may make
Requests ==
  { [body |-> b, sig |-> GatewaySig(b)] : b \in Bodies \cup {BadBody} }
  \cup UNION { { [body |-> b, sig |-> sig] : sig \in BadSigs(b) } : b \in ForgedBodies }

Request(b, sig) == [body |-> b, sig |-> sig]
NoRequest == Request(BadBody, NoHeader)
NoPayment == [payment_id |-> "", order_id |-> 0, status |-> "", raw_json |-> BadBody]
NoLocals == [status |-> "", payment_id |-> "", invoice_id |-> "", order |-> NoOrder,
             old |-> NoPayment, send |-> "none"]

\* lines 186-188 of nowpayments_ipn
extract_status(data) == Lower(OrElse(Get(data, "payment_status"), Get(data, "status")))
\* str(data.get("payment_id") or data.get("id")): "None" when both are absent
extract_payment_id_str_none(data) ==
  IF OrElse(Get(data, "payment_id"), Get(data, "id")) = ""
  THEN "None" ELSE OrElse(Get(data, "payment_id"), Get(data, "id"))

extract_payment_id(data) == OrElse(Get(data, "payment_id"), Get(data, "id"))
extract_invoice_id(data) == OrElse(Get(data, "invoice_id"), Get(data, "invoice"))

\* the text of the admin notification (lines 200-208)
AdminMessage(order, status, payment_id) ==
  [chat_id |-> ADMIN_ID, order_id |-> order.id, amount_usd |-> order.amount_usd,
   status |-> status, payment_id |-> payment_id]

\* what create_invoice may return: the gateway's JSON reply (black box)
GatewayReplies ==
  { << <<"id", "inv_a">>, <<"invoice_url", InvoiceUrl>> >>,
    << <<"invoice_id", "inv_b">>, <<"payment_url", InvoiceUrl>> >>,
    << <<"id", "inv_a">> >>,
    << <<"invoice_url", InvoiceUrl>> >> }

\* result: how the call of create_invoice ended (none, 2xx, http_error,
\* exception)
NoLinkLocals == [order_id |-> 0, amount |-> 0, invoice_id |-> "", invoice_url |-> "",
                 result |-> "none"]

\* context.user_data without the two keys; no update being handled
NoFlags == [await_amount |-> NULL, await_order_id |-> NULL]
NoUpdate == [handler |-> "none", user |-> NULL, data |-> "", outcome |-> "none",
             stats |-> [total |-> 0, paid |-> 0, pending |-> 0, sum_all |-> 0, sum_paid |-> 0]]

\* no call of verify_nowpayments_signature on its own
NoCall == [body |-> BadBody, other |-> BadBody, sig |-> NoHeader]
NoResult == [first |-> "none", second |-> "none"]

\* ------------------------------------------------------------------- Init
\* orders.db survives restarts: the store is empty or holds the rows of an
\* earlier run
InitialStores ==
  { <<>>,
    << [id |-> 1, chat_id |-> ChatId, amount_usd |-> 12, invoice_id |-> "inv_a",
        invoice_url |-> InvoiceUrl, status |-> "invoice_created"] >> }

Init ==
  /\ orders \in InitialStores
  /\ payments = {}
  /\ tg_app = NULL
  /\ notified = <<>>
  /\ w_pc = "idle"
  /\ w_req = NoRequest
  /\ w_loc = NoLocals
  /\ w_resp = 0
  /\ nreq = 0
  /\ m_pc = "idle"
  /\ m_loc = NoLinkLocals
  /\ nlinks = 0
  /\ v_in = NoCall
  /\ v_out = NoResult
  /\ user_data = NoFlags
  /\ update = NoUpdate

\* ------------------------------------------ listener thread: POST /ipn
\* lines 180-182: the signature does not verify, HTTPException(401); a
\* TypeError raised by compare_digest is unhandled, the server answers 500
ipn_reject(r) ==
  /\ w_pc = "idle" /\ nreq < MaxRequests
  /\ verify_nowpayments_signature(r.body, r.sig) # "True"
  /\ w_req' = r
  /\ w_loc' = NoLocals
  /\ w_resp' = IF verify_nowpayments_signature(r.body, r.sig) = "False" THEN 401 ELSE 500
  /\ w_pc' = "responded"
  /\ nreq' = nreq + 1
  /\ UNCHANGED <<orders, payments, tg_app, notified, m_vars, v_vars, u_vars>>

\* lines 180-191: verified, fields extracted; early return when an id is empty
ipn_accept(r) ==
  /\ w_pc = "idle" /\ nreq < MaxRequests
  /\ verify_nowpayments_signature(r.body, r.sig) = "True"
  /\ LET data == json_loads(r.body)
         payment_id == extract_payment_id(data)
         invoice_id == extract_invoice_id(data)
     IN /\ w_req' = r
        /\ w_loc' = [NoLocals EXCEPT !.status = extract_status(data),
                                      !.payment_id = payment_id, !.invoice_id = invoice_id]
        /\ IF payment_id = "" \/ invoice_id = ""
           THEN w_pc' = "responded" /\ w_resp' = 200
           ELSE w_pc' = "lookup" /\ w_resp' = 0
  /\ nreq' = nreq + 1
  /\ UNCHANGED <<orders, payments, tg_app, notified, m_vars, v_vars, u_vars>>

\* lines 193-194: order = get_order_by_invoice(invoice_id); return when None
ipn_lookup ==
  /\ w_pc = "lookup"
  /\ LET order == get_order_by_invoice(orders, w_loc.invoice_id)
     IN /\ w_loc' = [w_loc EXCEPT !.order = order]
        /\ IF order.id # 0
           THEN w_pc' = "upsert" /\ w_resp' = 0
           ELSE w_pc' = "responded" /\ w_resp' = 200
  /\ UNCHANGED <<w_req, nreq, orders, payments, tg_app, notified, m_vars, v_vars, u_vars>>

\* the row of table payments with primary key payment_id, if any
payment_row(ps, payment_id) ==
  IF \E r \in ps : r.payment_id = payment_id
  THEN CHOOSE r \in ps : r.payment_id = payment_id
  ELSE NoPayment

\* line 195
ipn_upsert ==
  /\ w_pc = "upsert"
  /\ payments' = upsert_payment(payments, w_loc.payment_id, w_loc.order.id,
                                w_loc.status, json_loads(w_req.body))
  /\ w_loc' = [w_loc EXCEPT !.old = payment_row(payments, w_loc.payment_id)]
  /\ w_pc' = "set_status"
  /\ UNCHANGED <<w_req, w_resp, nreq, orders, tg_app, notified, m_vars, v_vars, u_vars>>

\* line 196
ipn_set_status ==
  /\ w_pc = "set_status"
  /\ orders' = set_order_status(orders, w_loc.order.id, w_loc.status)
  /\ w_pc' = "notify"
  /\ UNCHANGED <<w_req, w_loc, w_resp, nreq, payments, tg_app, notified, m_vars, v_vars, u_vars>>

\* the guard without "finished"
should_notify_confirmed_only(app, status) == app # NULL /\ status = "confirmed"

\* the guard without the test of tg_app
should_notify_no_handle(app, status) == status \in PaidStatuses

\* line 199: the guard of the admin notification
should_notify(app, status) == app # NULL /\ status \in PaidStatuses

\* lines 199-210, send_message is not attempted or succeeds
ipn_notify_ok ==
  /\ w_pc = "notify"
  /\ IF should_notify(tg_app, w_loc.status)
     THEN /\ notified' = Append(notified, AdminMessage(w_loc.order, w_loc.status, w_loc.payment_id))
          /\ w_loc' = [w_loc EXCEPT !.send = "ok"]
     ELSE UNCHANGED <<notified, w_loc>>
  /\ w_pc' = "responded"
  /\ w_resp' = 200
  /\ UNCHANGED <<w_req, nreq, orders, payments, tg_app, m_vars, v_vars, u_vars>>

\* lines 199-208, send_message raises: nothing catches the exception, the
\* server answers 500
ipn_notify_fail ==
  /\ w_pc = "notify"
  /\ should_notify(tg_app, w_loc.status)
  /\ w_pc' = "responded"
  /\ w_resp' = 500
  /\ w_loc' = [w_loc EXCEPT !.send = "raised"]
  /\ UNCHANGED <<w_req, nreq, orders, payments, tg_app, notified, m_vars, v_vars, u_vars>>

\* the response has been sent; the listener waits for the next request
ipn_done ==
  /\ w_pc = "responded"
  /\ w_pc' = "idle"
  /\ w_req' = NoRequest
  /\ w_loc' = NoLocals
  /\ w_resp' = 0
  /\ notified' = <<>>
  /\ UNCHANGED <<nreq, orders, payments, tg_app, m_vars, v_vars, u_vars>>

nowpayments_ipn ==
  \/ \E r \in Requests : ipn_reject(r)
  \/ \E r \in Requests : ipn_accept(r)
  \/ ipn_lookup
  \/ ipn_upsert
  \/ ipn_set_status
  \/ ipn_notify_ok
  \/ ipn_notify_fail
  \/ ipn_done

\* ------------------------------- command-loop thread: make_payment_link
\* line 340: order_id = create_order(...); handlers run only once
\* run_polling has started, after tg_app was assigned; the conversation
\* state is left to the caller
mpl_create_order(amount) ==
  /\ m_pc = "idle" /\ tg_app # NULL /\ nlinks < MaxLinks
  /\ nlinks' = nlinks + 1
  /\ orders' = create_order(orders, ChatId, amount)
  /\ m_loc' = [NoLinkLocals EXCEPT !.order_id = Len(orders) + 1, !.amount = amount]
  /\ m_pc' = "create_invoice"
  /\ UNCHANGED <<payments, tg_app, notified, w_vars, v_vars>>

\* lines 342-344: the gateway answered 2xx with JSON inv
create_invoice_returns(inv) ==
  /\ m_pc = "create_invoice"
  /\ m_loc' = [m_loc EXCEPT !.invoice_id = OrElse(Get(inv, "id"), Get(inv, "invoice_id")),
                            !.invoice_url = OrElse(Get(inv, "invoice_url"), Get(inv, "payment_url")),
                            !.result = "2xx"]
  /\ m_pc' = "reply"
  /\ UNCHANGED <<nlinks, orders, payments, tg_app, notified, w_vars, v_vars, u_vars>>

\* line 167: raise_for_status() raised httpx.HTTPStatusError
create_invoice_http_error ==
  /\ m_pc = "create_invoice"
  /\ m_pc' = "http_error"
  /\ m_loc' = [m_loc EXCEPT !.result = "http_error"]
  /\ UNCHANGED <<nlinks, orders, payments, tg_app, notified, w_vars, v_vars, u_vars>>

\* lines 165-168: any other exception (timeout, transport, bad JSON)
create_invoice_exception ==
  /\ m_pc = "create_invoice"
  /\ m_pc' = "exception"
  /\ m_loc' = [m_loc EXCEPT !.result = "exception"]
  /\ UNCHANGED <<nlinks, orders, payments, tg_app, notified, w_vars, v_vars, u_vars>>

\* lines 346-355
mpl_reply ==
  /\ m_pc = "reply"
  /\ IF m_loc.invoice_id = "" \/ m_loc.invoice_url = ""
     THEN /\ orders' = set_order_status(orders, m_loc.order_id, "invoice_error")
          /\ m_pc' = "send_error"
     ELSE /\ orders' = attach_invoice(orders, m_loc.order_id, m_loc.invoice_id, m_loc.invoice_url)
          /\ m_pc' = "send_link"
  /\ UNCHANGED <<nlinks, m_loc, payments, tg_app, notified, w_vars, v_vars, u_vars>>

\* lines 348-353, 359, 360: a send_message inside the try block succeeds
mpl_send_ok ==
  /\ m_pc \in {"send_error", "send_link", "send_url"}
  /\ IF m_pc = "send_link"
     THEN m_pc' = "send_url" /\ m_loc' = m_loc
     ELSE m_pc' = "idle" /\ m_loc' = NoLinkLocals
  /\ UNCHANGED <<nlinks, orders, payments, tg_app, notified, w_vars, v_vars, u_vars>>

\* lines 348, 359, 360: a send_message inside the try block raises (a
\* telegram error, not an httpx.HTTPStatusError): caught at line 369
mpl_send_raises ==
  /\ m_pc \in {"send_error", "send_link", "send_url"}
  /\ m_pc' = "exception"
  /\ UNCHANGED <<nlinks, m_loc, orders, payments, tg_app, notified, w_vars, v_vars, u_vars>>

\* lines 362-363
mpl_http_error ==
  /\ m_pc = "http_error"
  /\ orders' = set_order_status(orders, m_loc.order_id, "invoice_http_error")
  /\ m_pc' = "send_final"
  /\ UNCHANGED <<nlinks, m_loc, payments, tg_app, notified, w_vars, v_vars, u_vars>>

\* lines 369-370
mpl_exception ==
  /\ m_pc = "exception"
  /\ orders' = set_order_status(orders, m_loc.order_id, "invoice_exception")
  /\ m_pc' = "send_final"
  /\ UNCHANGED <<nlinks, m_loc, payments, tg_app, notified, w_vars, v_vars, u_vars>>

\* lines 364-368, 371-375: the send_message of an except block returns or
\* raises; either way make_payment_link is over
mpl_send_final ==
  /\ m_pc = "send_final"
  /\ m_pc' = "idle"
  /\ m_loc' = NoLinkLocals
  /\ UNCHANGED <<nlinks, orders, payments, tg_app, notified, w_vars, v_vars, u_vars>>

\* make_payment_link after its first line
mpl_steps ==
  \/ \E inv \in GatewayReplies : create_invoice_returns(inv)
  \/ create_invoice_http_error
  \/ create_invoice_exception
  \/ mpl_reply
  \/ mpl_send_ok
  \/ mpl_send_raises
  \/ mpl_http_error
  \/ mpl_exception
  \/ mpl_send_final

\* the operator's dialogue that leads to make_payment_link is left out here
\* (ChatSpec has it): an amount arrives and the link is made
make_payment_link ==
  \/ \E amount \in Amounts : mpl_create_order(amount) /\ UNCHANGED u_vars
  \/ mpl_steps

\* ------------------------------------------------------------ main thread
\* line 385, after the listener thread was started at line 383
main_build_app ==
  /\ tg_app = NULL
  /\ tg_app' = "Application"
  /\ UNCHANGED <<orders, payments, notified, w_vars, m_vars, v_vars, u_vars>>

Next ==
  \/ nowpayments_ipn
  \/ make_payment_link
  \/ main_build_app

Spec == Init /\ [][Next]_vars

\* --------------------------- verify_nowpayments_signature called on its own
\* request bodies with a nested object, in several key orders
Fee(a, b) == << <<"fee", a \o b, "object">> >>

SigBodies ==
  { JsonBody(Field("payment_id", "p1") \o Fee(Field("currency", "usd"), Field("depositFee", "1"))
             \o Field("payment_status", "confirmed")),
    JsonBody(Fee(Field("currency", "usd"), Field("depositFee", "1"))
             \o Field("payment_status", "confirmed") \o Field("payment_id", "p1")),
    JsonBody(Field("payment_id", "p1") \o Fee(Field("depositFee", "1"), Field("currency", "usd"))
             \o Field("payment_status", "confirmed")),
    JsonBody(Field("payment_status", "confirmed")
             \o Fee(Field("depositFee", "1"), Field("currency", "usd")) \o Field("payment_id", "p1")),
    JsonBody(Field("payment_id", "p1") \o Fee(Field("currency", "usd"), Field("depositFee", "2"))
             \o Field("payment_status", "confirmed")),
    JsonBody(Field("payment_id", "p1") \o Field("currency", "usd") \o Field("depositFee", "1")
             \o Field("payment_status", "confirmed")),
    JsonBody(Field("payment_id", "p1") \o Field("payment_status", "confirmed")),
    JsonBody(Field("payment_status", "confirmed") \o Field("payment_id", "p1")),
    JsonBody(<<>>),
    BadBody }

\* the X-Nowpayments-Sig values presented with body b (and again with o)
SigsFor(b, o) ==
  { NoHeader, EmptySig, NonAsciiSig, GatewaySig(b), GatewaySig(o),
    HexSig(AttackerKey, sorted_str(b.pairs)) }

SigInit ==
  /\ orders = <<>>
  /\ payments = {}
  /\ tg_app = NULL
  /\ notified = <<>>
  /\ w_pc = "idle"
  /\ w_req = NoRequest
  /\ w_loc = NoLocals
  /\ w_resp = 0
  /\ nreq = 0
  /\ m_pc = "idle"
  /\ m_loc = NoLinkLocals
  /\ nlinks = 0
  /\ \E b \in SigBodies, o \in SigBodies :
       \E sig \in SigsFor(b, o) : v_in = [body |-> b, other |-> o, sig |-> sig]
  /\ v_out = NoResult
  /\ user_data = NoFlags
  /\ update = NoUpdate

\* verify_nowpayments_signature(body, sig)
verify_first ==
  /\ v_out.first = "none"
  /\ v_out' = [v_out EXCEPT !.first = verify_nowpayments_signature(v_in.body, v_in.sig)]
  /\ UNCHANGED <<v_in, orders, payments, tg_app, notified, w_vars, m_vars, u_vars>>

\* verify_nowpayments_signature(other, sig)
verify_second ==
  /\ v_out.second = "none"
  /\ v_out' = [v_out EXCEPT !.second = verify_nowpayments_signature(v_in.other, v_in.sig)]
  /\ UNCHANGED <<v_in, orders, payments, tg_app, notified, w_vars, m_vars, u_vars>>

SigNext ==
  \/ verify_first
  \/ verify_second

SigSpec == SigInit /\ [][SigNext]_vars

\* ------------------------------------------- the operator's conversation
\* the command loop alone (no notification arrives): /start, the menu
\* buttons, text messages, and make_payment_link as on_text calls it
Users == {ADMIN_ID, "stranger"}
Buttons == {"mkpay_custom", "order_status", "stats", "help"}
Texts == {"5", "5,0", "0", "-5", "nan", "abc", "STOP", " cancel ", "1"}

is_admin(user) == user = ADMIN_ID

\* str.strip() and str.replace(",", ".") on the texts modelled
strip(text) == CASE text = " cancel " -> "cancel" [] OTHER -> text
replace_comma(text) == CASE text = "5,0" -> "5.0" [] OTHER -> text

Number(n) == [raises |-> FALSE, nan |-> FALSE, value |-> n]
NaN == [raises |-> FALSE, nan |-> TRUE, value |-> 0]
ValueError == [raises |-> TRUE, nan |-> FALSE, value |-> 0]

\* float(s) and int(s) on the texts modelled
float(s) ==
  CASE s = "5" -> Number(5) [] s = "5.0" -> Number(5) [] s = "1" -> Number(1)
    [] s = "0" -> Number(0) [] s = "-5" -> Number(0 - 5)
    [] s = "nan" -> NaN
    [] OTHER -> ValueError

int(s) ==
  CASE s = "5" -> Number(5) [] s = "1" -> Number(1)
    [] s = "0" -> Number(0) [] s = "-5" -> Number(0 - 5)
    [] OTHER -> ValueError

\* x <= 0: False for nan
le_zero(x) == ~x.nan /\ x.value <= 0

\* lines 289: text.lower() in {"cancel", "c", "stop"}
is_cancel(text) == Lower(text) \in {"cancel", "c", "stop"}

\* lines 298-304: the except branch is taken
amount_rejected(text) ==
  float(replace_comma(text)).raises \/ le_zero(float(replace_comma(text)))

\* lines 313-319: the except branch is taken
order_id_rejected(text) == int(text).raises \/ le_zero(int(text))

get_order(os, order_id) == IF order_id \in 1..Len(os) THEN os[order_id] ELSE NoOrder

NoStats == [total |-> 0, paid |-> 0, pending |-> 0, sum_all |-> 0, sum_paid |-> 0]

\* the update a handler is working on: outcome is the reply it sent or the
\* exception that ended it, stats the summary shown by the stats button
Update(handler, user, data, outcome) ==
  [handler |-> handler, user |-> user, data |-> data, outcome |-> outcome, stats |-> NoStats]

\* run_polling hands the handlers one update at a time
Polling == tg_app # NULL /\ update = NoUpdate /\ m_pc = "idle"

\* lines 227-234
start_cmd(user) ==
  /\ Polling
  /\ IF is_admin(user)
     THEN user_data' = NoFlags /\ update' = Update("start_cmd", user, "/start", "menu")
     ELSE user_data' = user_data /\ update' = Update("start_cmd", user, "/start", "refused")
  /\ UNCHANGED <<orders, payments, tg_app, notified, w_vars, m_vars, v_vars>>

\* lines 236-280
on_button(user, data) ==
  /\ Polling
  /\ IF ~is_admin(user)
     THEN user_data' = user_data /\ update' = Update("on_button", user, data, "refused")
     ELSE CASE data = "mkpay_custom" ->
                 /\ user_data' = [await_amount |-> "True", await_order_id |-> NULL]
                 /\ update' = Update("on_button", user, data, "ask_amount")
            [] data = "order_status" ->
                 /\ user_data' = [await_amount |-> NULL, await_order_id |-> "True"]
                 /\ update' = Update("on_button", user, data, "ask_order_id")
            [] data = "stats" ->
                 /\ user_data' = user_data
                 /\ update' = [Update("on_button", user, data, "stats")
                                 EXCEPT !.stats = stats_summary(orders)]
            [] OTHER ->
                 /\ user_data' = user_data
                 /\ update' = Update("on_button", user, data, "help")
  /\ UNCHANGED <<orders, payments, tg_app, notified, w_vars, m_vars, v_vars>>

\* lines 283-284: not the operator
on_text_stranger(user, text) ==
  /\ Polling /\ ~is_admin(user)
  /\ update' = Update("on_text", user, text, "ignored")
  /\ UNCHANGED <<user_data, orders, payments, tg_app, notified, w_vars, m_vars, v_vars>>

\* lines 289-293
on_text_cancel(text) ==
  /\ Polling /\ is_cancel(strip(text))
  /\ user_data' = NoFlags
  /\ update' = Update("on_text", ADMIN_ID, text, "cancelled")
  /\ UNCHANGED <<orders, payments, tg_app, notified, w_vars, m_vars, v_vars>>

\* lines 296-304: the amount does not parse or is not positive
on_text_amount_rejected(text) ==
  /\ Polling /\ ~is_cancel(strip(text))
  /\ user_data.await_amount = "True"
  /\ amount_rejected(strip(text))
  /\ update' = Update("on_text", ADMIN_ID, text, "bad_amount")
  /\ UNCHANGED <<user_data, orders, payments, tg_app, notified, w_vars, m_vars, v_vars>>

\* lines 296-308, 340: the amount passed, the flag is cleared, the reply of
\* line 307 is sent and make_payment_link starts
on_text_amount(text) ==
  /\ Polling /\ ~is_cancel(strip(text))
  /\ user_data.await_amount = "True"
  /\ ~amount_rejected(strip(text))
  /\ ~float(replace_comma(strip(text))).nan
  /\ user_data' = [user_data EXCEPT !.await_amount = "False"]
  /\ update' = Update("on_text", ADMIN_ID, text, "creating")
  /\ mpl_create_order(float(replace_comma(strip(text))).value)

\* lines 296-307: the amount passed, the flag is cleared, reply_text at line
\* 307 raises and ends the handler
on_text_reply_raises(text) ==
  /\ Polling /\ ~is_cancel(strip(text))
  /\ user_data.await_amount = "True"
  /\ ~amount_rejected(strip(text))
  /\ user_data' = [user_data EXCEPT !.await_amount = "False"]
  /\ update' = Update("on_text", ADMIN_ID, text, "reply_raised")
  /\ UNCHANGED <<orders, payments, tg_app, notified, w_vars, m_vars, v_vars>>

\* lines 296-308, 340: the amount is nan, the flag is cleared, the INSERT
\* binds NULL to amount_usd REAL NOT NULL: sqlite3.IntegrityError ends the
\* handler
on_text_create_order_raises(text) ==
  /\ Polling /\ ~is_cancel(strip(text))
  /\ user_data.await_amount = "True"
  /\ ~amount_rejected(strip(text))
  /\ float(replace_comma(strip(text))).nan
  /\ user_data' = [user_data EXCEPT !.await_amount = "False"]
  /\ update' = Update("on_text", ADMIN_ID, text, "IntegrityError")
  /\ UNCHANGED <<orders, payments, tg_app, notified, w_vars, m_vars, v_vars>>

\* lines 312-319
on_text_order_id_rejected(text) ==
  /\ Polling /\ ~is_cancel(strip(text))
  /\ user_data.await_amount # "True" /\ user_data.await_order_id = "True"
  /\ order_id_rejected(strip(text))
  /\ update' = Update("on_text", ADMIN_ID, text, "bad_order_id")
  /\ UNCHANGED <<user_data, orders, payments, tg_app, notified, w_vars, m_vars, v_vars>>

\* lines 312-337
on_text_order_id(text) ==
  /\ Polling /\ ~is_cancel(strip(text))
  /\ user_data.await_amount # "True" /\ user_data.await_order_id = "True"
  /\ ~order_id_rejected(strip(text))
  /\ user_data' = [user_data EXCEPT !.await_order_id = "False"]
  /\ update' = Update("on_text", ADMIN_ID, text,
                      IF get_order(orders, int(strip(text)).value).id = 0
                      THEN "not_found" ELSE "order_status")
  /\ UNCHANGED <<orders, payments, tg_app, notified, w_vars, m_vars, v_vars>>

\* no branch of on_text applies
on_text_unexpected(text) ==
  /\ Polling /\ ~is_cancel(strip(text))
  /\ user_data.await_amount # "True" /\ user_data.await_order_id # "True"
  /\ update' = Update("on_text", ADMIN_ID, text, "none")
  /\ UNCHANGED <<user_data, orders, payments, tg_app, notified, w_vars, m_vars, v_vars>>

on_text ==
  \/ \E text \in Texts : on_text_stranger("stranger", text)
  \/ \E text \in Texts : on_text_cancel(text)
  \/ \E text \in Texts : on_text_amount_rejected(text)
  \/ \E text \in Texts : on_text_amount(text)
  \/ \E text \in Texts : on_text_reply_raises(text)
  \/ \E text \in Texts : on_text_create_order_raises(text)
  \/ \E text \in Texts : on_text_order_id_rejected(text)
  \/ \E text \in Texts : on_text_order_id(text)
  \/ \E text \in Texts : on_text_unexpected(text)

\* the handler has returned (or raised); the next update may be taken
update_done ==
  /\ update # NoUpdate /\ m_pc = "idle"
  /\ update' = NoUpdate
  /\ UNCHANGED <<user_data, orders, payments, tg_app, notified, w_vars, m_vars, v_vars>>

ChatInit ==
  /\ orders \in InitialStores
  /\ payments = {}
  /\ tg_app = "Application"
  /\ notified = <<>>
  /\ w_pc = "idle"
  /\ w_req = NoRequest
  /\ w_loc = NoLocals
  /\ w_resp = 0
  /\ nreq = 0
  /\ m_pc = "idle"
  /\ m_loc = NoLinkLocals
  /\ nlinks = 0
  /\ v_in = NoCall
  /\ v_out = NoResult
  /\ user_data = NoFlags
  /\ update = NoUpdate

ChatNext ==
  \/ \E user \in Users : start_cmd(user)
  \/ \E user \in Users, data \in Buttons : on_button(user, data)
  \/ on_text
  \/ mpl_steps
  \/ update_done

ChatSpec == ChatInit /\ [][ChatNext]_vars


\* =================================================================== claims
\* the request carries the gateway's signature of a parseable body
Authentic(r) == r.body.json /\ r.sig = GatewaySig(r.body)

\* the signature header is missing, the body does not parse, or the
\* signature is not the gateway's
BadAuth(r) == ~r.sig.present \/ ~r.body.json \/ r.sig # GatewaySig(r.body)

\* a step of the webhook handler
HandlerStep == w_pc' # w_pc

\* the handler is working on (or has answered) an authenticated notification
\* that matched an order
Matched == w_pc \in {"upsert", "set_status", "notify", "responded"} /\ w_loc.order.id # 0

\* C1: every POST /ipn request whose signature header is missing, whose body
\* does not parse, or whose signature does not match is answered 401, and
\* handling it changes no Order row, no PaymentEvent row and does not invoke
\* the Notifier.
C1_UnauthenticatedIs401 ==
  /\ [](w_pc = "responded" /\ BadAuth(w_req) => w_resp = 401 /\ w_loc.send = "none")
  /\ [][HandlerStep /\ w_pc' # "idle" /\ BadAuth(w_req')
          => orders' = orders /\ payments' = payments /\ notified' = notified]_vars

\* C2: when an authenticated notification with status confirmed or finished
\* matched an order and the Notifier's send failed, the response is still 200
\* and the order status and PaymentEvent written for it are kept.
C2_NotifierFailureSwallowed ==
  /\ [](w_pc = "responded" /\ Authentic(w_req) /\ Matched /\ w_loc.send = "raised"
          => w_resp = 200)
  /\ [][w_pc = "notify" /\ HandlerStep /\ w_loc'.send = "raised"
          => orders' = orders /\ payments' = payments]_vars

\* C3: every authenticated notification that matches an order overwrites the
\* order's status with the notification's lowercased status, whatever the
\* status was before (no ordering check, paid statuses included).
NotifiedStatus(r) ==
  Lower(OrElse(Get(r.body.pairs, "payment_status"), Get(r.body.pairs, "status")))

C3_LastWriteWins ==
  [][w_pc = "set_status" /\ HandlerStep
       => /\ Len(orders') = Len(orders)
          /\ \A i \in 1..Len(orders) :
               orders'[i] = IF orders[i].id = w_loc.order.id
                            THEN [orders[i] EXCEPT !.status = NotifiedStatus(w_req)]
                            ELSE orders[i]]_vars

\* a paid order has just been set back to waiting by a later notification
C3_Witness ==
  /\ w_pc = "notify" /\ Authentic(w_req)
  /\ w_loc.status = "waiting"
  /\ orders[w_loc.order.id].status = "waiting"
  /\ \E r \in payments : r.order_id = w_loc.order.id /\ r.status \in PaidStatuses


\* the identifiers a notification carries, under either alias
PaymentOf(r) == OrElse(Get(r.body.pairs, "payment_id"), Get(r.body.pairs, "id"))
InvoiceOf(r) == OrElse(Get(r.body.pairs, "invoice_id"), Get(r.body.pairs, "invoice"))

HasPaymentEvent(order_id) == \E r \in payments : r.order_id = order_id

\* C4: once a PaymentEvent exists for an order, the order's status is changed
\* only by the webhook handler writing a notification's status; a local
\* invoice-creation outcome is written only before any payment event.
C4_LocalOutcomeOnlyBeforePayment ==
  [][\A i \in 1..Len(orders) :
       HasPaymentEvent(orders[i].id) /\ orders'[i].status # orders[i].status
         => w_pc = "set_status" /\ HandlerStep /\ w_loc.order.id = orders[i].id]_vars

NoOrderFor(invoice_id) == \A i \in 1..Len(orders) : orders[i].invoice_id # invoice_id

\* C5: an authenticated notification whose invoice_id matches no order is
\* answered 200 at the lookup, and handling it creates no Order row, no
\* PaymentEvent row and changes no existing row.
C5_UnknownInvoiceIgnored ==
  /\ [][w_pc = "idle" /\ HandlerStep => orders' = orders /\ payments' = payments]_vars
  /\ [][w_pc = "lookup" /\ HandlerStep /\ Authentic(w_req) /\ NoOrderFor(InvoiceOf(w_req))
          => /\ w_pc' = "responded" /\ w_resp' = 200
             /\ orders' = orders /\ payments' = payments
             /\ notified' = notified /\ w_loc'.send = "none"]_vars

\* an unknown invoice was acknowledged while the store held other orders
C5_Witness ==
  /\ w_pc = "responded" /\ w_resp = 200 /\ Authentic(w_req)
  /\ PaymentOf(w_req) # "" /\ InvoiceOf(w_req) # ""
  /\ NoOrderFor(InvoiceOf(w_req)) /\ w_loc.order.id = 0
  /\ Len(orders) > 0

\* payment_id or invoice_id is missing or empty under both of its aliases
Incomplete(r) ==
  \/ Falsy(Get(r.body.pairs, "payment_id")) /\ Falsy(Get(r.body.pairs, "id"))
  \/ Falsy(Get(r.body.pairs, "invoice_id")) /\ Falsy(Get(r.body.pairs, "invoice"))

\* C6: an authenticated notification lacking payment_id or invoice_id under
\* both aliases is acknowledged with 200 at once and leaves orders and
\* payments unchanged, even when the other identifier matches an order.
C6_IncompleteAcknowledged ==
  [][w_pc = "idle" /\ HandlerStep /\ Authentic(w_req') /\ Incomplete(w_req')
       => /\ w_pc' = "responded" /\ w_resp' = 200
          /\ orders' = orders /\ payments' = payments /\ notified' = notified]_vars

\* a notification without payment_id, for the invoice of an existing order
C6_Witness ==
  /\ w_pc = "responded" /\ w_resp = 200 /\ Authentic(w_req)
  /\ PaymentOf(w_req) = "" /\ InvoiceOf(w_req) # ""
  /\ ~NoOrderFor(InvoiceOf(w_req))
  /\ payments = {}

\* row holds the payment_id, the status and the payload (the JSON content)
\* of notification r
RowRecords(row, r) ==
  /\ row.payment_id = PaymentOf(r)
  /\ row.status = NotifiedStatus(r)
  /\ row.raw_json.json /\ row.raw_json.pairs = r.body.pairs

\* C7: replaying an identical, previously processed notification adds no
\* PaymentEvent row, leaves the PaymentEvent's status and payload and the
\* order's status as the first delivery left them, and is answered 200.
C7_ReplayIdempotent ==
  /\ [](w_pc = "responded" /\ Matched /\ RowRecords(w_loc.old, w_req) => w_resp = 200)
  /\ [][w_pc = "upsert" /\ HandlerStep /\ (\E row \in payments : RowRecords(row, w_req))
          => payments' = payments]_vars
  /\ [][w_pc = "set_status" /\ HandlerStep /\ RowRecords(w_loc.old, w_req)
          => orders'[w_loc.order.id].status = w_loc.old.status]_vars

\* C8: there is at most one PaymentEvent row per payment_id, and an upsert
\* leaves exactly one row under its payment_id, carrying the status and raw
\* payload of that (the later) upsert; other rows are untouched.
C8_OneRowPerPaymentId ==
  /\ [](\A r1, r2 \in payments : r1.payment_id = r2.payment_id => r1 = r2)
  /\ [][w_pc = "upsert" /\ HandlerStep
          => LET rows == {r \in payments' : r.payment_id = PaymentOf(w_req)}
             IN /\ Cardinality(rows) = 1
                /\ \A r \in rows : RowRecords(r, w_req)
                /\ {r \in payments' : r.payment_id # PaymentOf(w_req)}
                     = {r \in payments : r.payment_id # PaymentOf(w_req)}]_vars

\* a second upsert under the same payment_id with a different status
C8_Witness ==
  /\ w_pc = "set_status"
  /\ w_loc.old.payment_id = w_loc.payment_id
  /\ w_loc.old.status # w_loc.status
  /\ Cardinality({r \in payments : r.payment_id = w_loc.payment_id}) = 1
  /\ \A r \in payments : r.payment_id = w_loc.payment_id => r.status = w_loc.status

\* C9 as stated: for a matched authenticated notification the Notifier is
\* invoked exactly when the lowercased status is confirmed or finished; it is
\* never invoked for unauthenticated, incomplete or unknown-invoice ones.
C9_NotifierIffPaid ==
  w_pc = "responded"
    => IF Authentic(w_req) /\ ~Incomplete(w_req) /\ w_loc.order.id # 0
       THEN (w_loc.send # "none") <=> (NotifiedStatus(w_req) \in PaidStatuses)
       ELSE w_loc.send = "none"

\* C9 as amended: for a matched authenticated notification the Notifier is
\* invoked exactly when the lowercased status is confirmed or finished and
\* tg_app has been initialised; a delivered message carries the order's id,
\* amount, the status and the payment id; no other step invokes the Notifier.
C9_NotifierIffPaidAndHandle ==
  /\ [][w_pc = "notify" /\ HandlerStep
          => /\ (w_loc'.send # "none")
                  <=> (NotifiedStatus(w_req) \in PaidStatuses /\ tg_app # NULL)
             /\ IF w_loc'.send = "ok"
                THEN /\ orders[w_loc.order.id].invoice_id = InvoiceOf(w_req)
                     /\ notified' = Append(notified,
                          [chat_id |-> ADMIN_ID, order_id |-> w_loc.order.id,
                           amount_usd |-> orders[w_loc.order.id].amount_usd,
                           status |-> NotifiedStatus(w_req),
                           payment_id |-> PaymentOf(w_req)])
                ELSE notified' = notified]_vars
  /\ [][w_pc \notin {"notify", "responded"}
          => notified' = notified /\ w_loc'.send = "none"]_vars
  /\ [](w_pc = "responded" /\ (BadAuth(w_req) \/ Incomplete(w_req) \/ w_loc.order.id = 0)
          => w_loc.send = "none" /\ notified = <<>>)

\* the operator was told of a payment whose status arrived as "Finished"
C9_Witness ==
  /\ w_pc = "responded" /\ w_loc.send = "ok"
  /\ Len(notified) = 1 /\ notified[1].status = "finished"
  /\ notified[1].order_id = w_loc.order.id

\* C10: a notification handled while tg_app is still unset skips the Notifier
\* without an error: the PaymentEvent is upserted, the order status is
\* overwritten, and the response is 200.
C10_NoHandleSkipsNotifier ==
  /\ [][w_pc = "upsert" /\ HandlerStep /\ tg_app = NULL
          => \E r \in payments' : RowRecords(r, w_req)]_vars
  /\ [][w_pc = "set_status" /\ HandlerStep /\ tg_app = NULL
          => orders'[w_loc.order.id].status = NotifiedStatus(w_req)]_vars
  /\ [][w_pc = "notify" /\ HandlerStep /\ tg_app = NULL
          => /\ w_pc' = "responded" /\ w_resp' = 200
             /\ w_loc'.send = "none" /\ notified' = notified
             /\ orders' = orders /\ payments' = payments
             /\ \E r \in payments : RowRecords(r, w_req)]_vars

\* a paid notification answered 200 before main() assigned tg_app
C10_Witness ==
  /\ w_pc = "responded" /\ tg_app = NULL /\ Matched
  /\ w_loc.status \in PaidStatuses
  /\ w_resp = 200 /\ w_loc.send = "none" /\ notified = <<>>
  /\ orders[w_loc.order.id].status = w_loc.status
  /\ \E r \in payments : RowRecords(r, w_req)

\* C11: an order's invoice_id is NULL until make_payment_link attaches a
\* complete gateway reply; the one write that sets it also sets invoice_url;
\* once set neither changes; so invoice_id is NULL exactly when invoice_url is.
C11_InvoiceAssignedOnce ==
  /\ [](\A i \in 1..Len(orders) :
          (orders[i].invoice_id = NULL) <=> (orders[i].invoice_url = NULL))
  /\ [][\A i \in 1..Len(orders) :
          orders[i].invoice_id # NULL
            => /\ orders'[i].invoice_id = orders[i].invoice_id
               /\ orders'[i].invoice_url = orders[i].invoice_url]_vars
  /\ [][\A i \in 1..Len(orders') :
          (i > Len(orders) \/ orders[i].invoice_id = NULL) /\ orders'[i].invoice_id # NULL
            => /\ m_pc = "reply" /\ m_loc.order_id = i
               /\ m_loc.invoice_id # "" /\ m_loc.invoice_url # ""
               /\ orders'[i].invoice_id = m_loc.invoice_id
               /\ orders'[i].invoice_url = m_loc.invoice_url]_vars

\* an order created in this run got its invoice, and a notification has
\* since rewritten its status
C11_Witness ==
  \E i \in 1..Len(orders) :
    /\ orders[i].amount_usd \in Amounts
    /\ orders[i].invoice_id = "inv_b" /\ orders[i].invoice_url = InvoiceUrl
    /\ orders[i].status = "confirmed"

\* C12: no two distinct orders hold the same non-NULL invoice_id, whatever
\* identifiers the gateway returns to successive payment-link creations.
C12_InvoiceIdUnique ==
  \A i, j \in 1..Len(orders) :
    orders[i].invoice_id # NULL /\ orders[i].invoice_id = orders[j].invoice_id => i = j

\* C13: verify_nowpayments_signature returns True exactly when the body parses
\* as JSON and the signature is the hex HMAC-SHA512, under the shared secret,
\* of the body's canonical serialization; for every other signature string,
\* an absent or empty signature, or an unparseable body it returns False.
C13_VerifyExactly ==
  v_out.first # "none"
    => v_out.first = IF v_in.body.json /\ v_in.sig = GatewaySig(v_in.body)
                     THEN "True" ELSE "False"

\* the half that holds: True is returned for the gateway's signature of a
\* parseable body and for nothing else
AcceptsExactly ==
  v_out.first # "none"
    => ((v_out.first = "True") <=> (v_in.body.json /\ v_in.sig = GatewaySig(v_in.body)))

\* the keys of a JSON object
Keys(data) == { data[i][1] : i \in 1..Len(data) }

\* two JSON objects without repeated keys that differ at most in the order
\* of keys, at every nesting level
RECURSIVE SameUpToKeyOrder(_, _)
SameUpToKeyOrder(d1, d2) ==
  /\ Len(d1) = Len(d2) /\ Keys(d1) = Keys(d2) /\ Cardinality(Keys(d1)) = Len(d1)
  /\ \A k \in Keys(d1) :
       IF IsObject(Member(d1, k)) /\ IsObject(Member(d2, k))
       THEN SameUpToKeyOrder(Get(d1, k), Get(d2, k))
       ELSE ~IsObject(Member(d1, k)) /\ ~IsObject(Member(d2, k)) /\ Get(d1, k) = Get(d2, k)

\* C14: two parseable bodies that differ only in the order of keys within
\* objects, at any nesting level, have the same canonical string, and a
\* signature verifies for one exactly when it verifies for the other.
C14_KeyOrderIndependent ==
  v_in.body.json /\ v_in.other.json /\ SameUpToKeyOrder(v_in.body.pairs, v_in.other.pairs)
    => /\ sorted_str(json_loads(v_in.body)) = sorted_str(json_loads(v_in.other))
       /\ (v_out.first # "none" /\ v_out.second # "none" => v_out.first = v_out.second)

\* one signature verified for two bodies whose keys are in different orders
\* both at the top level and inside the nested object
C14_Witness ==
  /\ v_out.first = "True" /\ v_out.second = "True"
  /\ SameUpToKeyOrder(v_in.body.pairs, v_in.other.pairs)
  /\ Has(v_in.body.pairs, "fee") /\ IsObject(Member(v_in.body.pairs, "fee"))
  /\ v_in.body.pairs[1][1] # v_in.other.pairs[1][1]
  /\ Get(v_in.body.pairs, "fee")[1][1] # Get(v_in.other.pairs, "fee")[1][1]

\* the order's status, lowercased, is confirmed or finished
IsPaid(order) == Lower(order.status) \in PaidStatuses

\* the sum of amount_usd over the paid orders, row by row
RECURSIVE PaidAmount(_)
PaidAmount(os) ==
  IF os = <<>> THEN 0
  ELSE (IF IsPaid(Head(os)) THEN Head(os).amount_usd ELSE 0) + PaidAmount(Tail(os))

\* C15: in every reachable store state stats_summary counts every order in
\* exactly one of paid (lowercased status confirmed or finished) and pending,
\* so total = paid + pending, and sum_paid is the sum of amount_usd over
\* exactly the paid orders.
C15_StatsPartition ==
  LET s == stats_summary(orders)
  IN /\ s.total = Len(orders)
     /\ s.paid = Cardinality({i \in 1..Len(orders) : IsPaid(orders[i])})
     /\ s.pending = Cardinality({i \in 1..Len(orders) : ~IsPaid(orders[i])})
     /\ s.total = s.paid + s.pending
     /\ s.sum_paid = PaidAmount(orders)

\* a store with one paid order (its status arrived as "Finished") and one
\* pending order of another amount
C15_Witness ==
  /\ w_pc = "notify" /\ Get(w_req.body.pairs, "status") = "Finished"
  /\ stats_summary(orders).total = 2
  /\ stats_summary(orders).paid = 1 /\ stats_summary(orders).pending = 1
  /\ stats_summary(orders).sum_paid = 12 /\ stats_summary(orders).sum_all = 17

\* the outcome status the gateway result calls for
OutcomeFor(loc) ==
  CASE loc.result = "2xx" /\ loc.invoice_id # "" /\ loc.invoice_url # "" -> "invoice_created"
    [] loc.result = "2xx" -> "invoice_error"
    [] loc.result = "http_error" -> "invoice_http_error"
    [] OTHER -> "invoice_exception"

\* C16: each payment-link request creates exactly one order in status
\* created, calls the gateway once for it, and (no notification arriving)
\* ends with that order in the status the gateway result calls for:
\* invoice_created, invoice_error, invoice_http_error or invoice_exception.
C16_OutcomeByGatewayResult ==
  /\ [][m_pc = "idle" /\ m_pc' # "idle"
          => /\ Len(orders') = Len(orders) + 1
             /\ \A i \in 1..Len(orders) : orders'[i] = orders[i]
             /\ orders'[Len(orders')].status = "created"
             /\ m_loc'.order_id = Len(orders') /\ m_pc' = "create_invoice"]_vars
  /\ [][m_pc # "idle" /\ m_pc' # m_pc
          => Len(orders') = Len(orders) /\ m_pc' # "create_invoice"]_vars
  /\ [][m_pc # "idle" /\ m_pc' = "idle"
          => m_loc.result # "none" /\ orders'[m_loc.order_id].status = OutcomeFor(m_loc)]_vars

\* C17: when the handler has upserted the PaymentEvent of an authenticated
\* notification with payment_id p that matched order o, the stored row for p
\* has order_id = o.id, also when p was recorded earlier for another order.
C17_PaymentEventPointsToMatchedOrder ==
  [][w_pc = "upsert" /\ HandlerStep /\ Authentic(w_req)
       => \A r \in payments' :
            r.payment_id = PaymentOf(w_req)
              => /\ r.order_id = w_loc.order.id
                 /\ orders[r.order_id].invoice_id = InvoiceOf(w_req)]_vars

\* the gateway has issued invoice_id for the order make_payment_link is
\* working on
IssuedForCurrentOrder(invoice_id) ==
  m_pc # "idle" /\ m_loc.result = "2xx" /\ m_loc.invoice_id = invoice_id /\ invoice_id # ""

\* C18: once the gateway has issued an invoice for a local order during
\* make_payment_link, the lookup of an authenticated notification for that
\* invoice finds an order, in every interleaving of the two threads.
C18_IssuedInvoiceIsKnown ==
  [][w_pc = "lookup" /\ HandlerStep /\ Authentic(w_req)
       /\ IssuedForCurrentOrder(InvoiceOf(w_req))
       => w_loc'.order.id # 0 /\ w_pc' = "upsert"]_vars

InvoiceErrorStatuses == {"invoice_error", "invoice_http_error", "invoice_exception"}

\* C19: in every reachable state an order whose status is invoice_error,
\* invoice_http_error or invoice_exception has neither invoice_id nor
\* invoice_url (an order with an attached invoice is never marked with an
\* invoice-creation error afterwards).
C19_ErrorStatusMeansNoInvoice ==
  \A i \in 1..Len(orders) :
    orders[i].status \in InvoiceErrorStatuses
      => orders[i].invoice_id = NULL /\ orders[i].invoice_url = NULL

\* the command loop has just taken a text message of the operator
TakesText == update = NoUpdate /\ update'.handler = "on_text" /\ update'.user = ADMIN_ID

\* texts that denote a positive amount of money, and the cancel words
PositiveAmountTexts == {"5", "5,0", "1"}
CancelTexts == {"STOP", " cancel "}

\* C20: await_amount and await_order_id are never both true; a valid
\* positive amount entered while await_amount is true clears the flag and
\* creates exactly one order; any other entry (cancel aside) creates no
\* order and leaves the flag set; cancel clears both flags.
C20_ConversationFlags ==
  /\ [](~(user_data.await_amount = "True" /\ user_data.await_order_id = "True"))
  /\ [][TakesText /\ user_data.await_amount = "True" /\ update'.data \in PositiveAmountTexts
          => /\ user_data'.await_amount # "True"
             /\ Len(orders') = Len(orders) + 1]_vars
  /\ [][TakesText /\ user_data.await_amount = "True"
          /\ update'.data \notin PositiveAmountTexts \cup CancelTexts
          => orders' = orders /\ user_data'.await_amount = "True"]_vars
  /\ [][TakesText /\ update'.data \in CancelTexts
          => /\ user_data'.await_amount # "True" /\ user_data'.await_order_id # "True"
             /\ orders' = orders]_vars

\* C20 without the two failing cases: the reply of line 307 is delivered and
\* the entry is not "nan"
FlagsUnlessReplyFailsOrNan ==
  /\ [](~(user_data.await_amount = "True" /\ user_data.await_order_id = "True"))
  /\ [][TakesText /\ user_data.await_amount = "True" /\ update'.data \in PositiveAmountTexts
          /\ update'.outcome # "reply_raised"
          => /\ user_data'.await_amount = "False"
             /\ Len(orders') = Len(orders) + 1]_vars
  /\ [][TakesText /\ user_data.await_amount = "True"
          /\ update'.data \notin PositiveAmountTexts \cup CancelTexts \cup {"nan"}
          => orders' = orders /\ user_data'.await_amount = "True"]_vars
  /\ [][TakesText /\ update'.data \in CancelTexts
          => user_data' = NoFlags /\ orders' = orders]_vars

====
